---- MODULE Spec2Model ----
(***************************************************************************)
(* Model of src/src/object/octet_string.rs: the Octet String Value object  *)
(* (OctetString), its BoundedVec size check and its BacnetObject property  *)
(* interface.  One object is constructed by OctetString::new and then      *)
(* driven by arbitrary calls of its methods.  obj holds the five fields of *)
(* the struct; last records the most recent call (name, arguments, return  *)
(* value); before is the value of the fields when that call was entered;   *)
(* written is the argument of the latest successful set_present_value;     *)
(* created is the instance number OctetString::new was called with.        *)
(***************************************************************************)
EXTENDS Integers, Sequences, FiniteSets, TLC

VARIABLES obj, before, last, written, created

vars == <<obj, before, last, written, created>>

-----------------------------------------------------------------------------
(* Bounds of the model *)

\* instance numbers 1..MaxInstance are given to OctetString::new
MaxInstance == 2
\* byte vectors of up to MAX_OCTET_STRING_SIZE + MaxOver bytes are offered
MaxOver == 1

-----------------------------------------------------------------------------
(* Constants and value universes *)

MAX_OCTET_STRING_SIZE == 900

\* u8 arithmetic
U8 == 256

\* vec![b; n]
Fill(n, b) == [i \in 1..n |-> b]
\* the bytes 1, 2, 3, ... (mod 256): Ramp(4) is the vec![1, 2, 3, 4] of the tests
Ramp(n) == [i \in 1..n |-> i % U8]

\* lengths of the byte vectors offered to the object: empty, the tests' four
\* bytes, the limit, and above the limit
Lens == {0, 4, MAX_OCTET_STRING_SIZE}
          \cup {MAX_OCTET_STRING_SIZE + k : k \in 1..MaxOver}

\* the Vec<u8> arguments; the last is the vec![1; MAX_OCTET_STRING_SIZE + 1]
\* of test_octet_string_oversize
Data == {Ramp(n) : n \in Lens} \cup {Fill(MAX_OCTET_STRING_SIZE + 1, 1)}

Instances == 1..MaxInstance

Names == {"test", "renamed"}

\* crate::object::PropertyIdentifier: the four variants the object matches on
\* and two it leaves to the wildcard arm
PropertyIdentifier ==
    {"ObjectIdentifier", "ObjectName", "ObjectType", "PresentValue",
     "Description", "StatusFlags"}

\* ObjectIdentifier::new(object_type, instance)
ObjectIdentifier_new(object_type, instance) ==
    [object_type |-> object_type, instance |-> instance]

\* crate::object::PropertyValue: a tag and its payload
PV_ObjectIdentifier(id) == [tag |-> "ObjectIdentifier", val |-> id]
PV_CharacterString(s)   == [tag |-> "CharacterString", val |-> s]
\* ObjectType::X as u32 is kept as the variant it was cast from
PV_Enumerated(t)        == [tag |-> "Enumerated", val |-> t]
PV_OctetString(bytes)   == [tag |-> "OctetString", val |-> bytes]

\* the PropertyValue arguments offered to set_property
PropertyValues ==
    {PV_CharacterString(n) : n \in Names}
      \cup {PV_OctetString(Ramp(4)),
            PV_Enumerated("OctetString"),
            PV_ObjectIdentifier(ObjectIdentifier_new("OctetString", 1))}

\* Result<T, E>
Ok(v)  == [ok |-> TRUE, val |-> v]
Err(e) == [ok |-> FALSE, val |-> e]

Unit == "()"

\* BoundedVecError::OversizeData { len, max_len }
OversizeData(len, max_len) ==
    [kind |-> "OversizeData", len |-> len, max_len |-> max_len]

-----------------------------------------------------------------------------
(* u8 bit operations *)

RECURSIVE BitAndN(_, _, _)
BitAndN(x, y, n) ==
    IF n = 0 THEN 0
    ELSE (IF x % 2 = 1 /\ y % 2 = 1 THEN 1 ELSE 0)
           + 2 * BitAndN(x \div 2, y \div 2, n - 1)

RECURSIVE BitOrN(_, _, _)
BitOrN(x, y, n) ==
    IF n = 0 THEN 0
    ELSE (IF x % 2 = 1 \/ y % 2 = 1 THEN 1 ELSE 0)
           + 2 * BitOrN(x \div 2, y \div 2, n - 1)

\* x & y on u8
BitAnd(x, y) == BitAndN(x % U8, y % U8, 8)
\* x | y on u8
BitOr(x, y) == BitOrN(x % U8, y % U8, 8)

-----------------------------------------------------------------------------
(* BoundedVec *)

\* mutant: the size check is left out
BoundedVec_new_unchecked(data) == Ok([inner |-> data])

\* mutant: the comparison is >= instead of >
BoundedVec_new_off_by_one(data) ==
    IF Len(data) >= MAX_OCTET_STRING_SIZE
    THEN Err(OversizeData(Len(data), MAX_OCTET_STRING_SIZE))
    ELSE Ok([inner |-> data])

BoundedVec_new(data) ==
    IF Len(data) > MAX_OCTET_STRING_SIZE
    THEN Err(OversizeData(Len(data), MAX_OCTET_STRING_SIZE))
    ELSE Ok([inner |-> data])

BoundedVec_len(self) == Len(self.inner)

-----------------------------------------------------------------------------
(* OctetString: each method is an operator; a &mut self method returns the *)
(* object after the call together with the returned value                  *)

\* mutant: the identifier is built with another object type
OctetString_new_wrong_type(instance, object_name) ==
    [identifier    |-> ObjectIdentifier_new("CharacterStringValue", instance),
     object_name   |-> object_name,
     description   |-> "",
     present_value |-> <<>>,
     status_flags  |-> 0]

OctetString_new(instance, object_name) ==
    [identifier    |-> ObjectIdentifier_new("OctetString", instance),
     object_name   |-> object_name,
     description   |-> "",
     present_value |-> <<>>,
     status_flags  |-> 0]

\* mutant: the value is stored before it is checked
set_present_value_store_first(self, value) ==
    LET stored == [self EXCEPT !.present_value = value]
        bounded_value == BoundedVec_new(value)
    IN
    IF ~bounded_value.ok
    THEN [self |-> stored, ret |-> Err(bounded_value.val)]
    ELSE [self |-> stored, ret |-> Ok(Unit)]

set_present_value(self, value) ==
    LET bounded_value == BoundedVec_new(value) IN
    IF ~bounded_value.ok
    THEN [self |-> self, ret |-> Err(bounded_value.val)]
    ELSE [self |-> [self EXCEPT !.present_value = bounded_value.val.inner],
          ret  |-> Ok(Unit)]

get_status_flags(self) ==
    << BitAnd(self.status_flags, 8) # 0,
       BitAnd(self.status_flags, 4) # 0,
       BitAnd(self.status_flags, 2) # 0,
       BitAnd(self.status_flags, 1) # 0 >>

\* mutant: the byte is not cleared before the bits are set
set_status_flags_no_reset(self, in_alarm, fault, overridden, out_of_service) ==
    LET s0 == self.status_flags
        s1 == IF in_alarm THEN BitOr(s0, 8) ELSE s0
        s2 == IF fault THEN BitOr(s1, 4) ELSE s1
        s3 == IF overridden THEN BitOr(s2, 2) ELSE s2
        s4 == IF out_of_service THEN BitOr(s3, 1) ELSE s3
    IN [self |-> [self EXCEPT !.status_flags = s4], ret |-> Unit]

set_status_flags(self, in_alarm, fault, overridden, out_of_service) ==
    LET s0 == 0
        s1 == IF in_alarm THEN BitOr(s0, 8) ELSE s0
        s2 == IF fault THEN BitOr(s1, 4) ELSE s1
        s3 == IF overridden THEN BitOr(s2, 2) ELSE s2
        s4 == IF out_of_service THEN BitOr(s3, 1) ELSE s3
    IN [self |-> [self EXCEPT !.status_flags = s4], ret |-> Unit]

identifier(self) == self.identifier

\* mutant: the PresentValue arm is missing
get_property_no_present_value(self, property) ==
    CASE property = "ObjectIdentifier" -> Ok(PV_ObjectIdentifier(self.identifier))
      [] property = "ObjectName"       -> Ok(PV_CharacterString(self.object_name))
      [] property = "ObjectType"       -> Ok(PV_Enumerated("OctetString"))
      [] OTHER                         -> Err("UnknownProperty")

\* mutant: the ObjectName arm reads the description field
get_property_name_from_description(self, property) ==
    CASE property = "ObjectIdentifier" -> Ok(PV_ObjectIdentifier(self.identifier))
      [] property = "ObjectName"       -> Ok(PV_CharacterString(self.description))
      [] property = "ObjectType"       -> Ok(PV_Enumerated("OctetString"))
      [] property = "PresentValue"     -> Ok(PV_OctetString(self.present_value))
      [] OTHER                         -> Err("UnknownProperty")

get_property(self, property) ==
    CASE property = "ObjectIdentifier" -> Ok(PV_ObjectIdentifier(self.identifier))
      [] property = "ObjectName"       -> Ok(PV_CharacterString(self.object_name))
      [] property = "ObjectType"       -> Ok(PV_Enumerated("OctetString"))
      [] property = "PresentValue"     -> Ok(PV_OctetString(self.present_value))
      [] OTHER                         -> Err("UnknownProperty")

\* mutant: PresentValue is accepted while out-of-service is asserted
set_property_out_of_service(self, property, value) ==
    CASE property = "ObjectName" ->
           IF value.tag = "CharacterString"
           THEN [self |-> [self EXCEPT !.object_name = value.val],
                 ret  |-> Ok(Unit)]
           ELSE [self |-> self, ret |-> Err("InvalidPropertyType")]
      [] property = "PresentValue" /\ BitAnd(self.status_flags, 1) # 0 ->
           IF value.tag = "OctetString"
           THEN [self |-> [self EXCEPT !.present_value = value.val],
                 ret  |-> Ok(Unit)]
           ELSE [self |-> self, ret |-> Err("InvalidPropertyType")]
      [] OTHER -> [self |-> self, ret |-> Err("PropertyNotWritable")]

set_property(self, property, value) ==
    CASE property = "ObjectName" ->
           IF value.tag = "CharacterString"
           THEN [self |-> [self EXCEPT !.object_name = value.val],
                 ret  |-> Ok(Unit)]
           ELSE [self |-> self, ret |-> Err("InvalidPropertyType")]
      [] OTHER -> [self |-> self, ret |-> Err("PropertyNotWritable")]

\* mutant: PresentValue is reported writable as well
is_property_writable_present_value(self, property) ==
    property \in {"ObjectName", "PresentValue"}

is_property_writable(self, property) == property = "ObjectName"

\* mutant: the list also names Description
property_list_with_description(self) ==
    <<"ObjectIdentifier", "ObjectName", "Description", "ObjectType",
      "PresentValue">>

property_list(self) ==
    <<"ObjectIdentifier", "ObjectName", "ObjectType", "PresentValue">>

-----------------------------------------------------------------------------
(* The state machine *)

Call(op, args, ret) == [op |-> op, args |-> args, ret |-> ret]

\* OctetString::new(instance, object_name); before has no earlier object to
\* hold and starts as the constructed one
Init ==
    \E instance \in Instances, object_name \in Names :
        /\ obj = OctetString_new(instance, object_name)
        /\ before = obj
        /\ last = Call("new",
                       [instance |-> instance, object_name |-> object_name],
                       obj)
        /\ written = [set |-> FALSE, data |-> <<>>]
        /\ created = instance

CallSetPresentValue ==
    \E value \in Data :
        LET r == set_present_value(obj, value) IN
        /\ obj' = r.self
        /\ before' = obj
        /\ last' = Call("set_present_value", [value |-> value], r.ret)
        /\ written' = IF r.ret.ok THEN [set |-> TRUE, data |-> value]
                      ELSE written
        /\ UNCHANGED created

CallSetProperty ==
    \E property \in PropertyIdentifier, value \in PropertyValues :
        LET r == set_property(obj, property, value) IN
        /\ obj' = r.self
        /\ before' = obj
        /\ last' = Call("set_property",
                        [property |-> property, value |-> value], r.ret)
        /\ UNCHANGED <<written, created>>

CallSetStatusFlags ==
    \E in_alarm \in BOOLEAN, fault \in BOOLEAN,
       overridden \in BOOLEAN, out_of_service \in BOOLEAN :
        LET r == set_status_flags(obj, in_alarm, fault, overridden,
                                  out_of_service) IN
        /\ obj' = r.self
        /\ before' = obj
        /\ last' = Call("set_status_flags",
                        <<in_alarm, fault, overridden, out_of_service>>, r.ret)
        /\ UNCHANGED <<written, created>>

CallGetStatusFlags ==
    /\ before' = obj
    /\ last' = Call("get_status_flags", Unit, get_status_flags(obj))
    /\ UNCHANGED <<obj, written, created>>

CallIdentifier ==
    /\ before' = obj
    /\ last' = Call("identifier", Unit, identifier(obj))
    /\ UNCHANGED <<obj, written, created>>

CallGetProperty ==
    \E property \in PropertyIdentifier :
        /\ before' = obj
        /\ last' = Call("get_property", [property |-> property],
                        get_property(obj, property))
        /\ UNCHANGED <<obj, written, created>>

CallIsPropertyWritable ==
    \E property \in PropertyIdentifier :
        /\ before' = obj
        /\ last' = Call("is_property_writable", [property |-> property],
                        is_property_writable(obj, property))
        /\ UNCHANGED <<obj, written, created>>

CallPropertyList ==
    /\ before' = obj
    /\ last' = Call("property_list", Unit, property_list(obj))
    /\ UNCHANGED <<obj, written, created>>

\* BoundedVec::new and len, as the module itself can call them
CallBoundedVecNew ==
    \E data \in Data :
        LET r == BoundedVec_new(data) IN
        /\ before' = obj
        /\ last' = Call("BoundedVec::new", [data |-> data],
                        [res |-> r,
                         len |-> IF r.ok THEN BoundedVec_len(r.val) ELSE -1])
        /\ UNCHANGED <<obj, written, created>>

Next ==
    \/ CallSetPresentValue
    \/ CallSetProperty
    \/ CallSetStatusFlags
    \/ CallGetStatusFlags
    \/ CallIdentifier
    \/ CallGetProperty
    \/ CallIsPropertyWritable
    \/ CallPropertyList
    \/ CallBoundedVecNew

Spec == Init /\ [][Next]_vars

-----------------------------------------------------------------------------
(* Helpers of the properties *)

\* the set of elements of a sequence
Range(s) == {s[i] : i \in 1..Len(s)}

OutOfServiceAsserted(self) == BitAnd(self.status_flags, 1) # 0

BoolBit(b) == IF b THEN 1 ELSE 0

\* r is Ok(pv), pv a PropertyValue
IsOkValue(r, pv) == r.ok /\ r.val.tag = pv.tag /\ r.val.val = pv.val

\* r is Err(e), e an ObjectError
IsErr(r, e) == ~r.ok /\ r.val = e

-----------------------------------------------------------------------------
(* Properties *)

\* C1: in every state reachable from OctetString::new by calls of the
\* object's methods, with byte vectors longer than 900 among the arguments,
\* present_value holds at most MAX_OCTET_STRING_SIZE (900) bytes.
C1_PresentValueBounded ==
    Len(obj.present_value) <= MAX_OCTET_STRING_SIZE

\* a full buffer (900 bytes) on which a longer write has just been attempted
C1_Witness ==
    /\ last.op = "set_present_value"
    /\ Len(last.args.value) > MAX_OCTET_STRING_SIZE
    /\ Len(obj.present_value) = MAX_OCTET_STRING_SIZE

\* C2: a call that returns an error leaves all five fields as they were on
\* entry, and set_present_value with more than 900 bytes, and every
\* set_property answered InvalidPropertyType or PropertyNotWritable, is such
\* a call.
C2_ErrorLeavesObjectUnchanged ==
    /\ (last.op \in {"set_present_value", "set_property", "get_property"}
          /\ ~last.ret.ok)
         => obj = before
    /\ (last.op = "set_present_value"
          /\ Len(last.args.value) > MAX_OCTET_STRING_SIZE)
         => (~last.ret.ok /\ obj = before)

\* present_value is still [1,2,3,4] after a rejected 901-byte write
C2_Witness ==
    /\ last.op = "set_present_value"
    /\ Len(last.args.value) = MAX_OCTET_STRING_SIZE + 1
    /\ ~last.ret.ok
    /\ before.present_value = <<1, 2, 3, 4>>
    /\ obj.present_value = <<1, 2, 3, 4>>

\* C3: BoundedVec::new succeeds exactly when the input has at most 900
\* bytes; on success len() is the input length, on failure the error is
\* OversizeData with len the input length and max_len 900.
C3_BoundedVecNew ==
    last.op = "BoundedVec::new" =>
        LET n == Len(last.args.data) IN
        /\ last.ret.res.ok <=> n <= MAX_OCTET_STRING_SIZE
        /\ last.ret.res.ok => last.ret.len = n
        /\ ~last.ret.res.ok =>
              /\ last.ret.res.val.kind = "OversizeData"
              /\ last.ret.res.val.len = n
              /\ last.ret.res.val.max_len = 900

\* a 901-byte input has been refused with OversizeData { 901, 900 }
C3_Witness ==
    /\ last.op = "BoundedVec::new"
    /\ Len(last.args.data) = 901
    /\ ~last.ret.res.ok
    /\ last.ret.res.val = OversizeData(901, 900)

\* C4: after a successful set_present_value(data), and until the next one,
\* present_value is data and get_property(PresentValue) is the octet-string
\* tag wrapping exactly data.
C4_PresentValueRoundTrip ==
    /\ (last.op = "set_present_value" /\ last.ret.ok)
         => (written.set /\ written.data = last.args.value)
    /\ written.set =>
         /\ obj.present_value = written.data
         /\ IsOkValue(get_property(obj, "PresentValue"), PV_OctetString(written.data))
    /\ (written.set /\ last.op = "get_property"
          /\ last.args.property = "PresentValue")
         => /\ last.ret.ok
            /\ last.ret.val.tag = "OctetString"
            /\ last.ret.val.val = written.data
            /\ Len(last.ret.val.val) = Len(written.data)

\* [1,2,3,4] was written and get_property(PresentValue) has just returned it
C4_Witness ==
    /\ written.set
    /\ written.data = <<1, 2, 3, 4>>
    /\ last.op = "get_property"
    /\ last.args.property = "PresentValue"
    /\ IsOkValue(last.ret, PV_OctetString(<<1, 2, 3, 4>>))

\* the tags a validly typed value of a property can have: the tag
\* get_property answers with, and any tag for a property it does not know
ExpectedTags(self, p) ==
    IF get_property(self, p).ok
    THEN {get_property(self, p).val.tag}
    ELSE {v.tag : v \in PropertyValues}

\* C5: is_property_writable(p) is true exactly when set_property(p, v)
\* succeeds for a value v of the type p expects; a property reported
\* not-writable cannot be changed through set_property, and a property
\* reported writable is never answered PropertyNotWritable.
C5_WritableAgreesWithSetProperty ==
    /\ \A p \in PropertyIdentifier :
         /\ is_property_writable(obj, p) <=>
              (\E v \in PropertyValues :
                  /\ v.tag \in ExpectedTags(obj, p)
                  /\ set_property(obj, p, v).ret.ok)
         /\ \A v \in PropertyValues :
              /\ ~is_property_writable(obj, p) =>
                   /\ ~set_property(obj, p, v).ret.ok
                   /\ set_property(obj, p, v).self = obj
              /\ is_property_writable(obj, p) =>
                   ~IsErr(set_property(obj, p, v).ret, "PropertyNotWritable")
              /\ (is_property_writable(obj, p) /\ v.tag \in ExpectedTags(obj, p))
                   => set_property(obj, p, v).ret.ok
    /\ last.op = "set_property" =>
         /\ last.ret.ok => is_property_writable(before, last.args.property)
         /\ ~is_property_writable(before, last.args.property) => obj = before
         /\ IsErr(last.ret, "PropertyNotWritable")
              => ~is_property_writable(before, last.args.property)

\* a set_property has just succeeded on a property reported writable
C5_Witness ==
    /\ last.op = "set_property"
    /\ last.ret.ok
    /\ obj # before
    /\ is_property_writable(before, last.args.property)

\* C6 as claimed: get_property answers with a tagged value, never with
\* UnknownProperty, for ObjectIdentifier, ObjectName, Description, ObjectType
\* and PresentValue; Description yields a character string holding the
\* description field.
C6_Original ==
    (last.op = "get_property"
      /\ last.args.property \in {"ObjectIdentifier", "ObjectName", "Description",
                                  "ObjectType", "PresentValue"})
     => /\ ~IsErr(last.ret, "UnknownProperty")
        /\ last.args.property = "Description"
             => IsOkValue(last.ret, PV_CharacterString(before.description))

\* C6 amended: get_property answers ObjectIdentifier with the identifier
\* tag, ObjectName with a character string holding object_name, ObjectType
\* with the enumerated type code and PresentValue with an octet string
\* holding present_value; Description is answered UnknownProperty.
C6_GetPropertyCatalog ==
    last.op = "get_property" =>
        LET p == last.args.property IN
        /\ p = "ObjectIdentifier" =>
             IsOkValue(last.ret, PV_ObjectIdentifier(before.identifier))
        /\ p = "ObjectName" =>
             IsOkValue(last.ret, PV_CharacterString(before.object_name))
        /\ p = "ObjectType" => IsOkValue(last.ret, PV_Enumerated("OctetString"))
        /\ p = "PresentValue" =>
             IsOkValue(last.ret, PV_OctetString(before.present_value))
        /\ p = "Description" => IsErr(last.ret, "UnknownProperty")
        /\ obj = before

\* the name was changed and get_property(ObjectName) has returned the new one
C6_Witness ==
    /\ last.op = "get_property"
    /\ last.args.property = "ObjectName"
    /\ obj.object_name = "renamed"
    /\ IsOkValue(last.ret, PV_CharacterString("renamed"))
    /\ obj.description = ""

C8_StatusFlagsRoundTrip ==
    /\ obj.status_flags \in 0..15
    /\ last.op = "set_status_flags" =>
         /\ get_status_flags(obj) = last.args
         /\ obj.status_flags = 8 * BoolBit(last.args[1]) + 4 * BoolBit(last.args[2])
                                 + 2 * BoolBit(last.args[3]) + BoolBit(last.args[4])
         /\ obj = [before EXCEPT !.status_flags = obj.status_flags]
    /\ last.op = "get_status_flags" =>
         /\ obj = before
         /\ obj.status_flags = 8 * BoolBit(last.ret[1]) + 4 * BoolBit(last.ret[2])
                                 + 2 * BoolBit(last.ret[3]) + BoolBit(last.ret[4])

\* all four flags were set and set_status_flags(false, true, false, true)
\* has left the byte 5
C8_Witness ==
    /\ last.op = "set_status_flags"
    /\ before.status_flags = 15
    /\ last.args = <<FALSE, TRUE, FALSE, TRUE>>
    /\ obj.status_flags = 5
    /\ get_status_flags(obj) = <<FALSE, TRUE, FALSE, TRUE>>

\* C9: property_list() is [ObjectIdentifier, ObjectName, ObjectType,
\* PresentValue] in every state, and get_property(p) succeeds exactly for
\* the p of that list, failing with UnknownProperty for every other p.
C9_CatalogConsistent ==
    /\ property_list(obj)
         = <<"ObjectIdentifier", "ObjectName", "ObjectType", "PresentValue">>
    /\ \A p \in PropertyIdentifier :
         /\ get_property(obj, p).ok <=> p \in Range(property_list(obj))
         /\ p \notin Range(property_list(obj))
              => IsErr(get_property(obj, p), "UnknownProperty")
    /\ last.op = "property_list" =>
         /\ last.ret
              = <<"ObjectIdentifier", "ObjectName", "ObjectType", "PresentValue">>
         /\ obj = before
    /\ last.op = "get_property" =>
         (last.ret.ok <=> last.args.property \in Range(property_list(before)))

\* a property outside the list has just been answered UnknownProperty on an
\* object whose fields have been written
C9_Witness ==
    /\ last.op = "get_property"
    /\ last.args.property \notin Range(property_list(obj))
    /\ IsErr(last.ret, "UnknownProperty")
    /\ obj.present_value # <<>>
    /\ obj.status_flags # 0

\* C10: new(instance, name) yields identifier (OctetString, instance),
\* object_name = name, empty description, empty present_value and
\* status_flags = 0, and no later call changes the identifier: identifier()
\* is (OctetString, instance) in every reachable state.
C10_IdentityInvariant ==
    /\ last.op = "new" =>
         /\ obj.identifier = ObjectIdentifier_new("OctetString", last.args.instance)
         /\ obj.object_name = last.args.object_name
         /\ obj.description = ""
         /\ obj.present_value = <<>>
         /\ obj.status_flags = 0
         /\ created = last.args.instance
    /\ identifier(obj) = ObjectIdentifier_new("OctetString", created)
    /\ obj.identifier = before.identifier
    /\ last.op = "identifier" =>
         last.ret = ObjectIdentifier_new("OctetString", created)

\* name, present value and status flags have all been written and
\* identifier() has just returned (OctetString, 2)
C10_Witness ==
    /\ last.op = "identifier"
    /\ created = 2
    /\ last.ret = ObjectIdentifier_new("OctetString", 2)
    /\ obj.present_value # <<>>
    /\ obj.status_flags # 0

====
